---- MODULE Spec2Model ----
(***************************************************************************)
(* measure_related_processes.py: the run loop of main, the streaming CSV   *)
(* writer MeasurementsWriter and the memoizing attribute proxy             *)
(* SafetyGoggles, over an external process-information provider (psutil)   *)
(* whose answers are the nondeterministic inputs of the model.             *)
(***************************************************************************)
EXTENDS Integers, Sequences, FiniteSets, TLC

(* ------------------------------ bounds -------------------------------- *)

\* sampling passes a run may start
MaxCycle == 2
\* provider anomalies in one run: attributes the backend lacks, plus
\* transient anomalous answers (access denied, nothing, unexpected type)
MaxFaults == 1
\* a transient anomaly hits the k-th provider query of its attribute in a
\* sample, k in 1..MaxQueryIndex
MaxQueryIndex == 2
\* entries in the lookup log of an accessor looked at on its own
MaxLookups == 3

\* descendants the command may start
MaxChildren == 1

\* the completion statuses the launched command may end with
ReturnCodes == {0, 1, 2}

\* the pid of the launched command, and the pids its descendants may get:
\* one below the command's, the others above it
RootPid == 2
ChildPids == {1} \cup {RootPid + i : i \in 1..(MaxChildren - 1)}

(* ------------------------------ values -------------------------------- *)
\* A Python value: k its type, n/s its payload, g whether it is wrapped in a
\* SafetyGoggles node (the node's _backing is the value with g = FALSE).

IntV(n) == [k |-> "int", n |-> n, s |-> "", g |-> FALSE]
FloatV(n) == [k |-> "float", n |-> n, s |-> "", g |-> FALSE]
StrV(s) == [k |-> "str", n |-> 0, s |-> s, g |-> FALSE]
NoneV == [k |-> "None", n |-> 0, s |-> "", g |-> FALSE]
\* a structured provider result (a namedtuple such as pcputimes) of process n
StructV(name, n) == [k |-> "struct", n |-> n, s |-> name, g |-> FALSE]
\* the process handle
ProcessV(pid) == [k |-> "Process", n |-> pid, s |-> "", g |-> FALSE]

\* SafetyGoggles(backing)
SafetyGoggles(backing) == [backing EXCEPT !.g = TRUE]

\* isinstance(details, (int, float, str))
IsScalar(v) == ~v.g /\ v.k \in {"int", "float", "str"}

\* "Transient Error"
TransientError == StrV("Transient Error")

(* ----------------------------- provider ------------------------------- *)

\* methods of a psutil.Process that writeprocess reads (pid is a plain
\* data attribute of the handle)
ProcessMethods ==
    {"ppid", "name", "create_time", "cpu_times", "num_threads", "memory_info",
     "io_counters", "status", "num_fds", "num_ctx_switches", "cwd"}

\* the methods that answer with a structured result, and its fields
StructFields(name) ==
    CASE name = "cpu_times" -> {"system", "user"}
      [] name = "memory_info" -> {"rss", "vms", "shared"}
      [] name = "io_counters" ->
           {"read_count", "read_bytes", "write_count", "write_bytes"}
      [] name = "num_ctx_switches" -> {"voluntary", "involuntary"}
      [] OTHER -> {}

StructMethods == {m \in ProcessMethods : StructFields(m) # {}}

\* attribute paths read off the accessor p in writeprocess
MethodPaths == {<<m>> : m \in ProcessMethods}
FieldPaths == UNION {{<<m, f>> : f \in StructFields(m)} : m \in StructMethods}
Paths == {<<"pid">>} \cup MethodPaths \cup FieldPaths

\* What the provider answers for one sample (one writeprocess call):
\*   pid      the process sampled
\*   status   what its status() reports
\*   now      time.time() at the sample
\*   lacking  the attribute paths this backend does not have at all
\*   gone     the method that raises NoSuchProcess ("" when none does)
\*   fault    a transient anomalous answer of one method
\*   interrupt  the point of writeprocess at which a KeyboardInterrupt is
\*            raised (0 when none is)
NoFault == [name |-> "", kind |-> "", at |-> 0]
FaultKinds == {"AccessDenied", "None", "OtherType"}
Faults ==
    [name : ProcessMethods, kind : FaultKinds, at : 1..MaxQueryIndex]

\* the value an attribute has when nothing is wrong
NormalValue(env, path) ==
    CASE path = <<"pid">> -> IntV(env.pid)
      [] path = <<"ppid">> -> IntV(IF env.pid = RootPid THEN 0 ELSE RootPid)
      [] path = <<"name">> -> StrV("cmd")
      [] path = <<"create_time">> -> FloatV(0)
      [] path = <<"num_threads">> -> IntV(11)
      [] path = <<"status">> -> StrV(env.status)
      [] path = <<"num_fds">> -> IntV(12)
      [] path = <<"cwd">> -> StrV("/")
      [] path = <<"cpu_times", "system">> -> FloatV(21)
      [] path = <<"cpu_times", "user">> -> FloatV(22)
      [] path = <<"memory_info", "rss">> -> IntV(31)
      [] path = <<"memory_info", "vms">> -> IntV(32)
      [] path = <<"memory_info", "shared">> -> IntV(33)
      [] path = <<"io_counters", "read_count">> -> IntV(41)
      [] path = <<"io_counters", "read_bytes">> -> IntV(42)
      [] path = <<"io_counters", "write_count">> -> IntV(43)
      [] path = <<"io_counters", "write_bytes">> -> IntV(44)
      [] path = <<"num_ctx_switches", "voluntary">> -> IntV(51)
      [] path = <<"num_ctx_switches", "involuntary">> -> IntV(52)
      [] OTHER -> StructV(path[1], env.pid)

\* getattr(self._backing, name, None) is not None
HasAttr(env, backing, name) ==
    CASE backing.k = "Process" ->
           name = "pid" \/ (name \in ProcessMethods /\ <<name>> \notin env.lacking)
      [] backing.k = "struct" ->
           name \in StructFields(backing.s) /\ <<backing.s, name>> \notin env.lacking
      [] OTHER -> FALSE

\* callable(attr)
Callable(backing, name) == backing.k = "Process" /\ name \in ProcessMethods

\* attr(): the k-th call of method name in this sample; [exc, val]
Call(env, name, k) ==
    IF env.gone = name
    THEN [exc |-> "NoSuchProcess", val |-> NoneV]
    ELSE IF env.fault.name = name /\ env.fault.at = k
    THEN CASE env.fault.kind = "AccessDenied" ->
                [exc |-> "AccessDenied", val |-> NoneV]
           [] env.fault.kind = "None" -> [exc |-> "", val |-> NoneV]
           [] OTHER ->
                [exc |-> "",
                 val |-> IF name \in StructMethods
                         THEN IntV(0)
                         ELSE StructV("other", env.pid)]
    ELSE [exc |-> "", val |-> NormalValue(env, <<name>>)]

(* --------------------------- SafetyGoggles ---------------------------- *)

\* __str__
GogglesStr(node) ==
    IF node.k = "None"
    THEN "N/A"
    ELSE IF node.k = "struct" THEN node.s \o "(...)" ELSE "<" \o node.k \o ">"

\* lines 74-78: what __getattr__ gets from the backing object; [exc, val],
\* exc the error raised by the call ("" when none)
Details(env, backing, path, k) ==
    IF backing.k # "None" /\ HasAttr(env, backing, path[Len(path)])
    THEN IF Callable(backing, path[Len(path)])
         THEN Call(env, path[Len(path)], k)
         ELSE [exc |-> "", val |-> NormalValue(env, path)]
    ELSE [exc |-> "", val |-> NoneV]

\* lines 79-85: access denied becomes "Transient Error", any other error
\* propagates, a scalar is the result and anything else is wrapped
Result(got) ==
    CASE got.exc = "AccessDenied" -> [exc |-> "", val |-> TransientError]
      [] got.exc # "" /\ got.exc # "AccessDenied" -> got
      [] got.exc = "" /\ IsScalar(got.val) -> got
      [] OTHER -> [exc |-> "", val |-> SafetyGoggles(got.val)]

\* __getattr__(name) on a node, before the setattr: [exc, val]; k counts
\* the provider queries for this path in the sample
DunderGetattr(env, node, path, k) ==
    Result(Details(env, [node EXCEPT !.g = FALSE], path, k))

\* a __getattr__ that forgets its result
SetattrDropped(memo, path, result) == memo

\* setattr(self, name, result): the result becomes an instance attribute,
\* found by later lookups before __getattr__ is tried
Setattr(memo, path, result) == (path :> result) @@ memo

\* the provider queries for path that a log of lookups holds
Queries(log, path) ==
    Cardinality({i \in 1..Len(log) : log[i].path = path /\ log[i].queried})

\* the end of __getattr__: the result r is set on the node and returned,
\* unless an error propagated
Resolved(s, path, r) ==
    [s EXCEPT !.val = r.val,
              !.exc = r.exc,
              !.memo = IF r.exc = "" THEN Setattr(@, path, r.val) ELSE @,
              !.log = Append(@, [path |-> path, queried |-> TRUE,
                                 exc |-> r.exc, val |-> r.val])]

\* node.name, the node being the accessor p (Len(path) = 1) or the result
\* memoized for the path's prefix.  s carries the sample's memo (the
\* attributes set on its nodes) and the log of its lookups.
GetAttribute(s, env, node, path) ==
    IF path \in DOMAIN s.memo
    THEN [s EXCEPT !.val = s.memo[path],
                   !.log = Append(@, [path |-> path, queried |-> FALSE,
                                      exc |-> "", val |-> s.memo[path]])]
    ELSE Resolved(s, path,
                  DunderGetattr(env, node, path, Queries(s.log, path) + 1))

\* .b on the result of p.a: a str, int or float has no such attribute
Nested(s1, env, path) ==
    IF s1.exc # "" THEN s1
    ELSE IF ~s1.val.g
         THEN [s1 EXCEPT !.exc = "AttributeError"]
         ELSE GetAttribute(s1, env, s1.val, path)

\* p.a or p.a.b
ReadPath(s, env, path) ==
    IF Len(path) = 1
    THEN GetAttribute(s, env, SafetyGoggles(ProcessV(env.pid)), path)
    ELSE Nested(GetAttribute(s, env, SafetyGoggles(ProcessV(env.pid)),
                             <<path[1]>>),
                env, path)

(* ------------------------- MeasurementsWriter ------------------------- *)

\* the declared fields in the order writeprocess adds them
Attr(label, path) == [label |-> label, kind |-> "attr", path |-> path]
Fields ==
    << [label |-> "Timestamp", kind |-> "timestamp", path |-> <<>>],
       Attr("PID", <<"pid">>),
       Attr("PPID", <<"ppid">>),
       Attr("Image", <<"name">>),
       [label |-> "Elapsed", kind |-> "elapsed", path |-> <<"create_time">>],
       Attr("System time", <<"cpu_times", "system">>),
       Attr("User time", <<"cpu_times", "user">>),
       Attr("Threads", <<"num_threads">>),
       Attr("Active memory", <<"memory_info", "rss">>),
       Attr("Virtual memory", <<"memory_info", "vms">>),
       Attr("Read operations", <<"io_counters", "read_count">>),
       Attr("Read bytes", <<"io_counters", "read_bytes">>),
       Attr("Write operations", <<"io_counters", "write_count">>),
       Attr("Write bytes", <<"io_counters", "write_bytes">>),
       [label |-> "Cycle", kind |-> "cycle", path |-> <<>>],
       Attr("State", <<"status">>),
       Attr("File descriptors", <<"num_fds">>),
       Attr("Shared memory", <<"memory_info", "shared">>),
       Attr("Voluntary context switches", <<"num_ctx_switches", "voluntary">>),
       Attr("Involuntary context switches", <<"num_ctx_switches", "involuntary">>),
       Attr("Current working directory", <<"cwd">>) >>

\* datetime.fromtimestamp(timestamp, timezone.utc).isoformat()
IsoFormat(t) == "1970-01-01T00:00:0" \o ToString(t) \o "+00:00"

\* the cell csv.writer.writerow writes for a value: a string as it is, None
\* as the empty cell, anything else through str()
CsvCell(v) ==
    IF v.g THEN GogglesStr(v)
    ELSE CASE v.k = "str" -> v.s
           [] v.k = "int" -> ToString(v.n)
           [] v.k = "float" -> ToString(v.n) \o ".0"
           [] OTHER -> ""

CsvRow(values) == [i \in 1..Len(values) |-> CsvCell(values[i])]

\* MeasurementsWriter.__init__
NewWriter == [writer |-> "None", header |-> <<>>, record |-> <<>>]

\* a writefield that extends the header for every record
writefieldAnyRecord(w, label, value) ==
    [w EXCEPT !.header = Append(@, label), !.record = Append(@, value)]

\* writefield(label, value)
writefield(w, label, value) ==
    [w EXCEPT !.header = IF w.writer = "None" THEN Append(@, label) ELSE @,
              !.record = Append(@, value)]

\* a writerecord that writes the header before every record
writerecordWithHeader(w, file) ==
    [w |-> [w EXCEPT !.writer = "csv.writer", !.record = <<>>],
     csvfile |-> Append(Append(file, w.header), CsvRow(w.record))]

\* writerecord(): [w, csvfile], the writer and the lines of the file after it
writerecord(w, file) ==
    [w |-> [w EXCEPT !.writer = "csv.writer", !.record = <<>>],
     csvfile |-> Append(IF w.writer = "None" THEN Append(file, w.header) ELSE file,
                        CsvRow(w.record))]

\* timestamp - p.create_time, s1 being the state after p.create_time
Elapsed(s1, env) ==
    IF s1.exc # "" THEN s1
    ELSE IF ~s1.val.g /\ s1.val.k \in {"int", "float"}
         THEN [s1 EXCEPT !.val = FloatV(env.now - s1.val.n)]
         ELSE [s1 EXCEPT !.exc = "TypeError"]

\* the argument of the i-th writefield call of writeprocess
FieldValue(s, env, cycle, i) ==
    CASE Fields[i].kind = "timestamp" -> [s EXCEPT !.val = StrV(IsoFormat(env.now))]
      [] Fields[i].kind = "cycle" -> [s EXCEPT !.val = IntV(cycle)]
      [] Fields[i].kind = "elapsed" -> Elapsed(ReadPath(s, env, Fields[i].path), env)
      [] OTHER -> ReadPath(s, env, Fields[i].path)

\* line 139: self.writerecord(), c being what it returns
Commit(s, c) ==
    [s EXCEPT !.w = c.w, !.csvfile = c.csvfile,
              !.committed = Append(@, [labels |-> s.labels, values |-> s.w.record]),
              !.labels = <<>>]

\* The points of writeprocess at which a KeyboardInterrupt may be raised:
\* i in 1..Len(Fields), where the argument of the i-th writefield call is
\* evaluated; then where writerecord is called; inside writerecord after
\* the header row was written (BetweenRows); and after the record's row
\* was written, before the record is reset (AfterRow)
BeforeCommit == Len(Fields) + 1
BetweenRows == Len(Fields) + 2
AfterRow == Len(Fields) + 3
InterruptPoints == 1..AfterRow

\* lines 147-149 alone: the first record's writerecord, interrupted after
\* the header row
HeaderWritten(s) ==
    [s EXCEPT !.w.writer = "csv.writer",
              !.csvfile = IF s.w.writer = "None" THEN Append(@, s.w.header) ELSE @,
              !.exc = "KeyboardInterrupt"]

\* lines 147-150 alone: writerecord interrupted after the record's row,
\* c being what the whole writerecord would return
RowWritten(s, c) ==
    [s EXCEPT !.w.writer = "csv.writer", !.csvfile = c.csvfile,
              !.committed = Append(@, [labels |-> s.labels, values |-> s.w.record]),
              !.exc = "KeyboardInterrupt"]

\* line 139, with the interrupts that may fall inside it
CommitOrInterrupt(s, env) ==
    CASE env.interrupt = BetweenRows -> HeaderWritten(s)
      [] env.interrupt = AfterRow -> RowWritten(s, writerecord(s.w, s.csvfile))
      [] OTHER -> Commit(s, writerecord(s.w, s.csvfile))

\* the body of writeprocess from its i-th writefield call on (FieldsFrom),
\* and from the point where that call's argument is evaluated (AddField);
\* an error leaves the body at once, with the writer as the calls so far
\* left it
RECURSIVE FieldsFrom(_, _, _, _)
RECURSIVE AddField(_, _, _, _)
\* a writefield call whose cell goes to the file at once
AddFieldStreams(s1, env, cycle, i) ==
    IF s1.exc # "" THEN s1
    ELSE FieldsFrom([s1 EXCEPT !.w = writefield(@, Fields[i].label, s1.val),
                               !.labels = Append(@, Fields[i].label),
                               !.csvfile =
                                   IF i = 1
                                   THEN Append(@, <<CsvCell(s1.val)>>)
                                   ELSE [@ EXCEPT ![Len(@)] =
                                             Append(@, CsvCell(s1.val))]],
                    env, cycle, i + 1)

AddField(s1, env, cycle, i) ==
    IF s1.exc # "" THEN s1
    ELSE FieldsFrom([s1 EXCEPT !.w = writefield(@, Fields[i].label, s1.val),
                               !.labels = Append(@, Fields[i].label)],
                    env, cycle, i + 1)

FieldsFrom(s, env, cycle, i) ==
    IF env.interrupt = i
    THEN [s EXCEPT !.exc = "KeyboardInterrupt"]
    ELSE IF i > Len(Fields)
         THEN CommitOrInterrupt(s, env)
         ELSE AddField(FieldValue(s, env, cycle, i), env, cycle, i)

\* lines 99-102: process.oneshot() when the handle has it, or else a
\* NoOpContextManager
Oneshot(env) ==
    IF <<"oneshot">> \notin env.lacking THEN "oneshot" ELSE "NoOpContextManager"

\* line 104: the with statement enters the context
DunderEnter(s, ctx) ==
    [s EXCEPT !.ctx = ctx, !.enters = @ + 1, !.depth = @ + 1]

\* a context that is exited only when the body returns
ExitOnReturnOnly(s) ==
    IF s.exc = "" THEN [s EXCEPT !.exits = @ + 1, !.depth = @ - 1] ELSE s

\* the with statement exits the context however the body was left;
\* neither context swallows the error (__exit__ returns False)
DunderExit(s) ==
    [s EXCEPT !.exits = @ + 1, !.depth = @ - 1]

\* writeprocess(cycle, process) on a writer w and a file: the state it
\* leaves, exc naming the error that propagates ("" when it returns)
writeprocess(w, file, committed, labels, cycle, env) ==
    DunderExit(
        FieldsFrom(DunderEnter([w |-> w, csvfile |-> file,
                                committed |-> committed, labels |-> labels,
                                memo |-> <<>>, log |-> <<>>,
                                val |-> NoneV, exc |-> "",
                                ctx |-> "", enters |-> 0, exits |-> 0,
                                depth |-> 0],
                               Oneshot(env)),
                   env, cycle, 1))

(* -------------------------------- main -------------------------------- *)

VARIABLES
    pc,          \* where main is: "while", "body", "for", "wait", "done"
                 \* (main returned), "exited" (sys.exit was called),
                 \* "crashed" (an error left main); or
                 \* "getattr" when an accessor is looked at on its own
    error,       \* the error that left main ("" when none)
    cycle,       \* main's cycle
    queue,       \* the processes of the for loop not sampled yet
    writer,      \* the MeasurementsWriter: writer, header, record
    csvfile,     \* the lines written to the measurement file
    seconds,     \* arguments.seconds_between_cycles: the float default, or
                 \* the str that -s gives (the option declares no type)
    rootState,   \* the launched command: "running", "zombie", "terminated", "reaped"
    childState,  \* each possible descendant: "unborn", "live", "exited"
    lacking,     \* the attribute paths the provider lacks on this platform
    now,         \* time.time()
    faults,      \* transient anomalies the provider has answered with
    committed,   \* history: per committed record, the labels and values added
    labels,      \* history: the labels added since the last commit
    children,    \* main's children: what first.children(recursive=True) returned
    last,        \* history: the last writeprocess call: its process, the
                 \* provider's anomalies, the error it raised, and the memo
                 \* and the lookups of its accessor
    waits,       \* history: calls of first.wait() that returned
    returncode,  \* what first.wait() returned: the command's completion
                 \* status (None while it has not returned)
    exitStatus   \* the exit status of the tool's own process (None while
                 \* it has not exited)

vars ==
    <<pc, error, cycle, queue, writer, csvfile, seconds, rootState, childState,
      lacking, now, faults, committed, labels, children, last, waits,
      returncode, exitStatus>>

\* the sequences that list every element of S once
Orders(S) ==
    {q \in [1..Cardinality(S) -> S] : \A i, j \in 1..Cardinality(S) : q[i] = q[j] => i = j}

\* the subsets of S of at most n elements
RECURSIVE SubsetsUpTo(_, _)
SubsetsUpTo(S, n) ==
    IF n = 0 THEN {{}}
    ELSE LET smaller == SubsetsUpTo(S, n - 1)
         IN smaller \cup {T \cup {x} : T \in smaller, x \in S}

\* sorted(procs, key=lambda _: _.pid): a stable insertion sort
RECURSIVE Insert(_, _)
Insert(sortedq, pid) ==
    IF sortedq = <<>> \/ pid < Head(sortedq)
    THEN <<pid>> \o sortedq
    ELSE <<Head(sortedq)>> \o Insert(Tail(sortedq), pid)

\* the processes in the order they were listed
Unsorted(procs) == procs

RECURSIVE Sorted(_)
Sorted(procs) ==
    IF procs = <<>> THEN <<>>
    ELSE Insert(Sorted(SubSeq(procs, 1, Len(procs) - 1)), procs[Len(procs)])

\* the children without the command itself
ChildrenOnly(procs) == procs

\* [first, *children]
ProcessList(procs) == <<RootPid>> \o procs

\* first.is_running() and first.status() != psutil.STATUS_ZOMBIE
LoopCondition == rootState \notin {"terminated", "reaped"} /\ rootState # "zombie"

Alive(pid) ==
    IF pid = RootPid THEN rootState = "running" ELSE childState[pid] = "live"

\* what status() reports for a process
Status(pid) ==
    IF pid = RootPid /\ rootState = "zombie" THEN "zombie" ELSE "running"

NoSample ==
    [pid |-> 0, fault |-> NoFault, gone |-> "", interrupt |-> 0, exc |-> "",
     memo |-> <<>>, log |-> <<>>, ctx |-> "", enters |-> 0, exits |-> 0,
     depth |-> 0]

\* main enters the while loop: cycle = 0, the command launched, the file
\* open, the writer made
Init ==
    /\ pc = "while"
    /\ error = ""
    /\ cycle = 0
    /\ queue = <<>>
    /\ writer = NewWriter
    /\ csvfile = <<>>
    /\ seconds \in {FloatV(0), StrV("0.5")}
    /\ rootState = "running"
    /\ childState = [p \in ChildPids |-> "unborn"]
    /\ lacking \in SubsetsUpTo(MethodPaths \cup FieldPaths \cup {<<"oneshot">>},
                              MaxFaults)
    /\ now = 0
    /\ faults = Cardinality(lacking)
    /\ committed = <<>>
    /\ labels = <<>>
    /\ children = <<>>
    /\ last = NoSample
    /\ waits = 0
    /\ returncode = NoneV
    /\ exitStatus = NoneV

\* a loop that is left without waiting for the command
WhileSkipsWait ==
    /\ pc = "while"
    /\ pc' = IF LoopCondition THEN "body" ELSE "done"
    /\ UNCHANGED <<error, cycle, queue, writer, csvfile, seconds, rootState,
                   childState, lacking, now, faults, committed, labels,
                   children, last, waits, returncode, exitStatus>>

\* line 170: the loop condition
While ==
    /\ pc = "while"
    /\ pc' = IF LoopCondition THEN "body" ELSE "wait"
    /\ UNCHANGED <<error, cycle, queue, writer, csvfile, seconds, rootState,
                   childState, lacking, now, faults, committed, labels,
                   children, last, waits,
                   returncode, exitStatus>>

\* a pass that counts its cycle twice
BeginPassSkips ==
    /\ pc = "body"
    /\ cycle < MaxCycle
    /\ children' \in Orders({p \in ChildPids : childState[p] = "live"})
    /\ queue' = Sorted(ProcessList(children'))
    /\ cycle' = cycle + 2
    /\ pc' = "for"
    /\ UNCHANGED <<error, writer, csvfile, seconds, rootState, childState,
                   lacking, now, faults, committed, labels, last, waits,
                   returncode, exitStatus>>

\* lines 171-173: the next cycle, its processes, sorted
BeginPass ==
    /\ pc = "body"
    /\ cycle < MaxCycle
    /\ children' \in Orders({p \in ChildPids : childState[p] = "live"})
    /\ queue' = Sorted(ProcessList(children'))
    /\ cycle' = cycle + 1
    /\ pc' = "for"
    /\ UNCHANGED <<error, writer, csvfile, seconds, rootState, childState,
                   lacking, now, faults, committed, labels, last, waits,
                   returncode, exitStatus>>

\* the provider's answers for the sample of pid, with transient anomaly f
\* and NoSuchProcess raised by method g
Env(pid, f, g) ==
    [pid |-> pid, status |-> Status(pid), now |-> now, lacking |-> lacking,
     gone |-> g, fault |-> f, interrupt |-> 0]

\* main after writeprocess left state s: the next process, or the error
\* leaves the for loop, the while loop and main
Sampled(pid, f, g, k, s) ==
    /\ f # NoFault => Queries(s.log, <<f.name>>) >= f.at /\ g # f.name
    /\ g # "" => s.exc = "NoSuchProcess"
    /\ k = BetweenRows => writer.writer = "None"
    /\ writer' = s.w
    /\ csvfile' = s.csvfile
    /\ committed' = s.committed
    /\ labels' = s.labels
    /\ faults' = IF f # NoFault THEN faults + 1 ELSE faults
    /\ last' = [pid |-> pid, fault |-> f, gone |-> g, interrupt |-> k,
                exc |-> s.exc, memo |-> s.memo, log |-> s.log,
                ctx |-> s.ctx, enters |-> s.enters, exits |-> s.exits,
                depth |-> s.depth]
    /\ pc' = IF s.exc = "" THEN pc ELSE "crashed"
    /\ error' = s.exc
    /\ queue' = IF s.exc = "" THEN Tail(queue) ELSE queue

\* a sampling step that reads through the accessor of the sample before
Retained(pid, f, g, env) ==
    Sampled(pid, f, g, 0,
            DunderExit(
                FieldsFrom(DunderEnter([w |-> writer, csvfile |-> csvfile,
                                        committed |-> committed,
                                        labels |-> labels,
                                        memo |-> last.memo, log |-> <<>>,
                                        val |-> NoneV, exc |-> "",
                                        ctx |-> "", enters |-> 0,
                                        exits |-> 0, depth |-> 0],
                                       Oneshot(env)),
                           env, cycle, 1)))

WriteProcessRetained ==
    /\ pc = "for"
    /\ queue # <<>>
    /\ \E f \in {NoFault} \cup (IF faults < MaxFaults THEN Faults ELSE {}),
          g \in {""} \cup (IF Alive(Head(queue)) THEN {} ELSE ProcessMethods) :
         Retained(Head(queue), f, g, Env(Head(queue), f, g))
    /\ UNCHANGED <<cycle, seconds, rootState, childState, lacking, now,
                   children, waits, returncode, exitStatus>>

\* line 174: writer.writeprocess(cycle, process) for the next process
WriteProcess ==
    /\ pc = "for"
    /\ queue # <<>>
    /\ \E f \in {NoFault} \cup (IF faults < MaxFaults THEN Faults ELSE {}),
          g \in {""} \cup (IF Alive(Head(queue)) THEN {} ELSE ProcessMethods) :
         Sampled(Head(queue), f, g, 0,
                 writeprocess(writer, csvfile, committed, labels, cycle,
                              Env(Head(queue), f, g)))
    /\ UNCHANGED <<cycle, seconds, rootState, childState, lacking, now,
                   children, waits,
                   returncode, exitStatus>>

\* a loop whose sleep was left out
SleepOmitted ==
    /\ pc = "for"
    /\ queue = <<>>
    /\ pc' = "while"
    /\ UNCHANGED <<error, now, cycle, queue, writer, csvfile, seconds, rootState,
                   childState, lacking, faults, committed, labels, children,
                   last, waits, returncode, exitStatus>>

\* line 175: time.sleep(arguments.seconds_between_cycles); the clock of the
\* model advances only here, so now counts the sleeps that returned
Sleep ==
    /\ pc = "for"
    /\ queue = <<>>
    /\ IF seconds.k \in {"int", "float"}
       THEN /\ pc' = "while"
            /\ now' = now + 1
            /\ UNCHANGED error
       ELSE /\ pc' = "crashed"
            /\ error' = "TypeError"
            /\ UNCHANGED now
    /\ UNCHANGED <<cycle, queue, writer, csvfile, seconds, rootState, childState,
                   lacking, faults, committed, labels, children, last, waits,
                   returncode, exitStatus>>

\* line 176: first.wait(), which returns the command's completion status
\* once the command has exited; main drops it, leaves the with block and
\* falls off its end
Wait ==
    /\ pc = "wait"
    /\ rootState # "running"
    /\ rootState' = "reaped"
    /\ waits' = waits + 1
    /\ \E rc \in ReturnCodes : returncode' = IntV(rc)
    /\ pc' = "done"
    /\ UNCHANGED <<error, cycle, queue, writer, csvfile, seconds, childState,
                   lacking, now, faults, committed, labels, children, last,
                   exitStatus>>

\* what main returns: it has no return statement
MainReturns == NoneV

\* the exit status sys.exit(arg) gives the process: 0 for None, the integer
\* for an integer, 1 for anything else
SysExitStatus(arg) ==
    CASE arg.k = "None" -> IntV(0)
      [] arg.k = "int" -> IntV(arg.n % 256)
      [] OTHER -> IntV(1)

\* line 180: sys.exit(main()), once main has returned
SysExit ==
    /\ pc = "done"
    /\ exitStatus' = SysExitStatus(MainReturns)
    /\ pc' = "exited"
    /\ UNCHANGED <<error, cycle, queue, writer, csvfile, seconds, rootState,
                   childState, lacking, now, faults, committed, labels,
                   children, last, waits, returncode>>

(* ------------------------- the processes' life ------------------------ *)

Running == pc \notin {"done", "crashed", "exited"}

\* the command, or a descendant, starts another descendant
ChildSpawn(p) ==
    /\ Running
    /\ rootState = "running"
    /\ childState[p] = "unborn"
    /\ childState' = [childState EXCEPT ![p] = "live"]
    /\ UNCHANGED <<pc, error, cycle, queue, writer, csvfile, seconds, rootState,
                   lacking, now, faults, committed, labels, children, last, waits,
                   returncode, exitStatus>>

ChildExit(p) ==
    /\ Running
    /\ childState[p] = "live"
    /\ childState' = [childState EXCEPT ![p] = "exited"]
    /\ UNCHANGED <<pc, error, cycle, queue, writer, csvfile, seconds, rootState,
                   lacking, now, faults, committed, labels, children, last, waits,
                   returncode, exitStatus>>

\* the command exits: it stays a zombie until it is waited for, or (where
\* the platform keeps no zombies) is not running any more
RootExit ==
    /\ Running
    /\ rootState = "running"
    /\ rootState' \in {"zombie", "terminated"}
    /\ UNCHANGED <<pc, error, cycle, queue, writer, csvfile, seconds, childState,
                   lacking, now, faults, committed, labels, children, last, waits,
                   returncode, exitStatus>>

Next ==
    \/ While
    \/ BeginPass
    \/ WriteProcess
    \/ Sleep
    \/ Wait
    \/ SysExit
    \/ \E p \in ChildPids : ChildSpawn(p)
    \/ \E p \in ChildPids : ChildExit(p)
    \/ RootExit

Spec == Init /\ [][Next]_vars

(* ------------------------ with interrupts ----------------------------- *)

\* line 174 when the user interrupts the tool while it samples: a
\* KeyboardInterrupt is raised at one of the points of writeprocess and
\* leaves writeprocess and main
WriteProcessInterrupted ==
    /\ pc = "for"
    /\ queue # <<>>
    /\ \E k \in InterruptPoints :
         Sampled(Head(queue), NoFault, "", k,
                 writeprocess(writer, csvfile, committed, labels, cycle,
                              [Env(Head(queue), NoFault, "") EXCEPT !.interrupt = k]))
    /\ UNCHANGED <<cycle, seconds, rootState, childState, lacking, now,
                   children, waits, returncode, exitStatus>>

NextInterrupt == Next \/ WriteProcessInterrupted

SpecInterrupt == Init /\ [][NextInterrupt]_vars

(* --------------------- SafetyGoggles on its own ----------------------- *)

\* lookups of one attribute of an accessor of the command, and of the fields
\* of the node it hands out, in any order, the log holding fewer than
\* MaxLookups entries when a lookup starts; the provider answers the
\* attribute looked up in any of its ways.  last holds the accessor's memo
\* and the log of its lookups.

LookedUp(s) == last' = [last EXCEPT !.memo = s.memo, !.log = s.log, !.exc = s.exc]

Lookup ==
    /\ pc = "getattr"
    /\ Len(last.log) < MaxLookups
    /\ \E path \in {q \in Paths : last.log # <<>> => q[1] = last.log[1].path[1]} :
       \E f \in {NoFault} \cup {x \in Faults : x.name = path[1]},
          g \in {""} \cup ({path[1]} \cap ProcessMethods),
          lack \in {{}, {path}, {<<path[1]>>}} :
         LookedUp(ReadPath([memo |-> last.memo, log |-> last.log,
                            val |-> NoneV, exc |-> ""],
                           [Env(RootPid, f, g) EXCEPT !.lacking = lack], path))
    /\ UNCHANGED <<pc, error, cycle, queue, writer, csvfile, seconds, rootState,
                   childState, lacking, now, faults, committed, labels,
                   children, waits,
                   returncode, exitStatus>>

InitGoggles ==
    /\ pc = "getattr"
    /\ error = ""
    /\ cycle = 0
    /\ queue = <<>>
    /\ writer = NewWriter
    /\ csvfile = <<>>
    /\ seconds = FloatV(0)
    /\ rootState = "running"
    /\ childState = [p \in ChildPids |-> "unborn"]
    /\ lacking = {}
    /\ now = 0
    /\ faults = 0
    /\ committed = <<>>
    /\ labels = <<>>
    /\ children = <<>>
    /\ last = [NoSample EXCEPT !.pid = RootPid]
    /\ waits = 0
    /\ returncode = NoneV
    /\ exitStatus = NoneV

NextGoggles == Lookup

SpecGoggles == InitGoggles /\ [][NextGoggles]_vars

(* ------------------------------ properties ---------------------------- *)

\* the column of a label, and a committed record's value under a label
Col(label) == CHOOSE i \in 1..Len(Fields) : Fields[i].label = label
Value(rec, label) == rec.values[Col(label)]

\* the rows committed in a cycle, in the order they were written
RowsOf(c) ==
    SelectSeq(committed, LAMBDA rec : Value(rec, "Cycle") = IntV(c))

\* C1: every committed record was added under the labels of the header
\* pinned by the first commit; the file holds the header and one row per
\* committed record, each row as long as the header row, and cell j of a
\* row is the value added under header label j
C1_RowsMatchHeader ==
    /\ committed # <<>> => Len(csvfile) = Len(committed) + 1
    /\ \A i \in 1..Len(committed) :
         /\ committed[i].labels = writer.header
         /\ csvfile[1] = writer.header
         /\ Len(committed[i].values) = Len(committed[i].labels)
         /\ Len(csvfile[i + 1]) = Len(csvfile[1])
         /\ \A j \in 1..Len(csvfile[i + 1]) :
              csvfile[i + 1][j] = CsvCell(committed[i].values[j])

\* C1 witness: three records were committed, over two cycles
C1_Witness == Len(committed) >= 3 /\ cycle = 2

\* C2: nothing is written before the first commit; from the first commit on
\* the first line is the header and no later line is; a commit adds one
\* line; and once the first commit is done the header and the first line
\* never change
C2_HeaderOnce ==
    /\ [](writer.writer = "None" => csvfile = <<>>)
    /\ [](writer.writer # "None" =>
            /\ Len(csvfile) >= 2
            /\ csvfile[1] = writer.header
            /\ \A i \in 2..Len(csvfile) : csvfile[i] # csvfile[1])
    /\ [][/\ Len(csvfile') <= Len(csvfile) + (IF writer.writer = "None" THEN 2 ELSE 1)
          /\ writer.writer # "None" =>
               /\ writer'.header = writer.header
               /\ SubSeq(csvfile', 1, Len(csvfile)) = csvfile]_vars

\* C2 witness: the header and two rows are in the file
C2_Witness == writer.writer # "None" /\ Len(csvfile) = 3

\* C8: of two consecutive rows of the same cycle, the later has the greater PID
C8_AscendingPids ==
    \A i \in 1..(Len(committed) - 1) :
        Value(committed[i], "Cycle") = Value(committed[i + 1], "Cycle") =>
            /\ Value(committed[i], "PID").k = "int"
            /\ Value(committed[i + 1], "PID").k = "int"
            /\ Value(committed[i], "PID").n < Value(committed[i + 1], "PID").n

\* C8 witness: two consecutive rows of one cycle
C8_Witness ==
    \E i \in 1..(Len(committed) - 1) :
        Value(committed[i], "Cycle") = Value(committed[i + 1], "Cycle")

\* C9: in a pass, every process of {root} plus the children returned at its
\* start is either still to be sampled or has exactly one row, and no other
\* process has a row; so when the pass ends without a failed sample, each
\* has exactly one row
C9_OneRowPerProcess ==
    pc = "for" =>
        LET rows == RowsOf(cycle)
            listed == {RootPid} \cup {children[i] : i \in 1..Len(children)}
        IN /\ \A pid \in listed :
                Cardinality({i \in 1..Len(rows) : Value(rows[i], "PID") = IntV(pid)})
                  + Cardinality({i \in 1..Len(queue) : queue[i] = pid}) = 1
           /\ \A i \in 1..Len(rows) :
                \E pid \in listed : Value(rows[i], "PID") = IntV(pid)
           /\ \A i \in 1..Len(queue) : queue[i] \in listed

\* C9 witness: a pass over the command and a child ended, no sample failed
C9_Witness ==
    pc = "for" /\ queue = <<>> /\ Len(children) = 1 /\ Len(RowsOf(cycle)) = 2

\* C10: in the lookups of one sample, once a lookup of an attribute has
\* returned, no later lookup of that attribute queries the backing object
\* and each returns the same result, sentinels included
C10_Memoized ==
    \A i, j \in 1..Len(last.log) :
        (i < j /\ last.log[i].path = last.log[j].path /\ last.log[i].exc = "") =>
            /\ ~last.log[j].queried
            /\ last.log[j].exc = ""
            /\ last.log[j].val = last.log[i].val

\* C10 witness: an attribute that resolved to a sentinel was looked up again
C10_Witness ==
    \E i, j \in 1..Len(last.log) :
        /\ i < j
        /\ last.log[i].path = last.log[j].path
        /\ last.log[i].val \in {TransientError, SafetyGoggles(NoneV)}

\* C3: a NoSuchProcess raised by a field read never leaves main, so the
\* remaining processes, the later passes and the final wait still happen
C3_FailureIsolated == error # "NoSuchProcess"

\* the cells a declared field shows when its method is denied or lacking
Sentinels == {"Transient Error", "N/A", ""}

\* C4: a sample in which a method raised access denied commits its row, with
\* "Transient Error" in the cells read from that method and a value in every
\* other cell
C4_DeniedFieldIsolated ==
    (last.fault.kind = "AccessDenied" /\ last.gone = "") =>
        /\ last.exc = ""
        /\ committed # <<>>
        /\ Value(committed[Len(committed)], "PID") = IntV(last.pid)
        /\ \A i \in 1..Len(Fields) :
             IF Fields[i].path # <<>> /\ Fields[i].path[1] = last.fault.name
             THEN csvfile[Len(csvfile)][i] = "Transient Error"
             ELSE csvfile[Len(csvfile)][i] \notin Sentinels

\* C5: when the backend lacks an attribute, writeprocess never raises and
\* every row shows "N/A" in the columns read from that attribute
C5_LackingFieldNotAvailable ==
    (lacking # {} /\ last.gone = "") =>
        /\ last.exc = ""
        /\ \A r \in 2..Len(csvfile) : \A i \in 1..Len(Fields) :
             (Fields[i].path # <<>>
                /\ (Fields[i].path \in lacking \/ <<Fields[i].path[1]>> \in lacking))
               => csvfile[r][i] = "N/A"

\* C6: the first pass is cycle 0 and samples the command alone
C6_FirstPassIsCycleZero ==
    committed # <<>> =>
        /\ Value(committed[1], "Cycle") = IntV(0)
        /\ Value(committed[1], "PID") = IntV(RootPid)
        /\ Len(committed) >= 2 => Value(committed[2], "Cycle") # IntV(0)

\* C7: when main has returned, the file holds the header row and at least
\* one row of the command
C7_HeaderAndRootRow ==
    pc = "done" =>
        /\ Len(csvfile) >= 2
        /\ csvfile[1] = [i \in 1..Len(Fields) |-> Fields[i].label]
        /\ \E i \in 1..Len(committed) : Value(committed[i], "PID") = IntV(RootPid)

\* C11: once the loop condition was false (main is at the wait or past it)
\* no record is added and nothing is written, main never samples again and
\* no error leaves it; wait has not been called while main is at it and
\* has returned exactly once when main has returned, which main does only
\* from the wait, the command reaped
C11_DrainThenStop ==
    /\ [](pc = "wait" => waits = 0)
    /\ [](pc \in {"done", "exited"} => waits = 1 /\ rootState = "reaped")
    /\ [][(pc \in {"wait", "done", "exited"}) =>
            (/\ pc' \in {"wait", "done", "exited"}
             /\ csvfile' = csvfile
             /\ committed' = committed
             /\ writer' = writer)]_vars
    /\ [][(pc' = "done" /\ pc # "done") => (pc = "wait" /\ waits' = waits + 1)]_vars

\* C11 witness: the tool has exited after a run that wrote records and
\* waited for the command
C11_Witness == pc = "exited" /\ committed # <<>> /\ waits = 1

\* C12: when the tool exits after main returned, its exit status is the
\* completion status that wait returned for the command
C12_ExitStatusIsCommandStatus == pc = "exited" => exitStatus = returncode

\* C13: cycle changes only when a pass starts, and then grows by exactly
\* one; a record added during a pass carries that pass's cycle; and of two
\* consecutive records the later carries the same Cycle or the next one
C13_CycleCounter ==
    /\ [][cycle' # cycle => (pc = "body" /\ pc' = "for")]_vars
    /\ [][(pc = "body" /\ pc' = "for") => cycle' = cycle + 1]_vars
    /\ [][committed' # committed =>
            (/\ cycle' = cycle
             /\ Len(committed') = Len(committed) + 1
             /\ Value(committed'[Len(committed')], "Cycle") = IntV(cycle))]_vars
    /\ [](\A i \in 1..(Len(committed) - 1) :
            \/ Value(committed[i + 1], "Cycle") = Value(committed[i], "Cycle")
            \/ Value(committed[i + 1], "Cycle").n = Value(committed[i], "Cycle").n + 1)

\* C13 witness: a pass wrote two records and the next pass wrote one
C13_Witness == Len(RowsOf(1)) = 2 /\ RowsOf(2) # <<>>

\* C14 as claimed: the loop condition is evaluated right after each pass and
\* the sleep comes after it, so when the condition has been evaluated after
\* pass n only the sleeps of the n - 1 earlier passes have returned
C14_ConditionBeforeSleep ==
    (pc \in {"body", "wait"} /\ cycle > 0) => now = cycle - 1

\* C14 as amended: the condition is evaluated before the first pass and
\* right after each sleep that returns, and a pass that completes is
\* followed by the sleep: whenever the condition is about to be or has been
\* evaluated every pass so far was followed by its sleep, during pass n
\* the n - 1 earlier sleeps have returned, a sleep returns only at the end
\* of a pass and leads to the condition, and a pass is left only
\* through the sleep or by an error
C14_SleepBeforeCondition ==
    /\ [](pc \in {"while", "body", "wait", "done", "exited"} => now = cycle)
    /\ [](pc = "for" => now = cycle - 1)
    /\ [][now' # now =>
            (pc = "for" /\ queue = <<>> /\ pc' = "while" /\ now' = now + 1)]_vars
    /\ [][(pc = "for" /\ pc' \notin {"for", "crashed"}) =>
            (pc' = "while" /\ now' = now + 1)]_vars

\* C14 witness: the condition was found false after two passes, each
\* followed by its sleep
C14_Witness == pc = "wait" /\ cycle = 2 /\ now = 2 /\ Len(committed) >= 2

\* C15: whatever the interval, the step of main that follows a pass is a
\* sleep that returns and leads to the next condition check
C15_SleepAfterEveryPass ==
    [][(pc = "for" /\ queue = <<>> /\ pc' # pc) =>
         (pc' = "while" /\ now' = now + 1)]_vars

\* C16: every value of a committed record is an integer, a float or a
\* string, or the accessor node with absent backing
C16_ScalarOrNotAvailable ==
    \A i \in 1..Len(committed) : \A j \in 1..Len(committed[i].values) :
        \/ IsScalar(committed[i].values[j])
        \/ committed[i].values[j] = SafetyGoggles(NoneV)

\* the labels of the declared fields, in order
AllLabels == [i \in 1..Len(Fields) |-> Fields[i].label]

\* C17: every line of the file has a cell per declared field; the file
\* holds at most the header and one row per committed record, each row the
\* cells of a record that was added under all the declared labels; and a
\* step in which an error or an interrupt leaves writeprocess before the
\* record's row is written commits nothing and writes no cell of the
\* record (at most the header row, when the interrupt falls inside the
\* first writerecord)
C17_NoPartialRow ==
    /\ [](\A r \in 1..Len(csvfile) : Len(csvfile[r]) = Len(Fields))
    /\ [](Len(csvfile) <= Len(committed) + 1)
    /\ [](\A i \in 1..Len(committed) :
            /\ committed[i].labels = AllLabels
            /\ csvfile[i + 1] = CsvRow(committed[i].values))
    /\ [][(pc = "for" /\ pc' = "crashed" /\ last'.interrupt # AfterRow) =>
            (/\ committed' = committed
             /\ \/ csvfile' = csvfile
                \/ /\ last'.interrupt = BetweenRows
                   /\ csvfile = <<>>
                   /\ csvfile' = <<AllLabels>>)]_vars

\* C17 witness: an interrupt left writeprocess with some fields of the
\* record added, rows of earlier records being in the file
C17_Witness ==
    /\ pc = "crashed"
    /\ last.exc = "KeyboardInterrupt"
    /\ writer.record # <<>>
    /\ Len(writer.record) < Len(Fields)
    /\ Len(csvfile) >= 2

\* C18: every writeprocess call entered its context once and exited it
\* once, so that it is not entered when the call is over, however the call
\* ended; the context is process.oneshot() when the handle has it and a
\* NoOpContextManager otherwise
C18_ContextReleased ==
    last.pid # 0 =>
        /\ last.enters = 1
        /\ last.exits = 1
        /\ last.depth = 0
        /\ last.ctx = IF <<"oneshot">> \in lacking
                      THEN "NoOpContextManager"
                      ELSE "oneshot"

\* C18 witness: an error left a writeprocess call that had entered the
\* no-op context
C18_Witness ==
    last.pid # 0 /\ last.exc # "" /\ last.ctx = "NoOpContextManager" /\ last.exits = 1

\* C19: in every sample the first lookup of an attribute queries the
\* provider, whatever earlier samples resolved; and the record of a sample
\* in which the provider answered nothing anomalous shows no "Transient
\* Error", and an accessor node only where the backend lacks the attribute
C19_FreshAccessor ==
    /\ \A i \in 1..Len(last.log) :
          (\A j \in 1..(i - 1) : last.log[j].path # last.log[i].path) =>
              last.log[i].queried
    /\ (last.pid # 0 /\ last.exc = "" /\ last.fault = NoFault) =>
          \A i \in 1..Len(Fields) :
              Fields[i].kind = "attr" =>
                  /\ committed[Len(committed)].values[i] # TransientError
                  /\ committed[Len(committed)].values[i].g =>
                        \/ Fields[i].path \in lacking
                        \/ <<Fields[i].path[1]>> \in lacking

\* C19 witness: a field of a process that showed a sentinel in one record
\* shows a value in a later record of the same process
C19_Witness ==
    \E i, j \in 1..Len(committed) : \E c \in 1..Len(Fields) :
        /\ i < j
        /\ Value(committed[i], "PID") = Value(committed[j], "PID")
        /\ committed[i].values[c] \in {TransientError, SafetyGoggles(NoneV)}
        /\ IsScalar(committed[j].values[c])
        /\ committed[j].values[c] # TransientError

====
